---------------------------- MODULE Spec2Model ----------------------------
(***************************************************************************)
(* PyGuard terminal backend: command admission (security.py), sliding      *)
(* window rate limiting (security.py), the per-connection session loop     *)
(* (server.py) and the command execution engine (terminal_manager.py).     *)
(*                                                                         *)
(* A Python str is a sequence of one-character strings.                    *)
(***************************************************************************)
EXTENDS Integers, Sequences, FiniteSets, TLC

VARIABLES
    pc,           \* position of the running code (session loop, or the driver of a pure function)
    command,      \* server.py: command / security.py: the command argument
    is_allowed,   \* server.py: is_allowed
    error_msg,    \* server.py: error_msg
    rate_limits,  \* SecurityManager.rate_limits: connection id -> list of timestamps
    now,          \* the wall clock read by datetime.now()
    rl_call,      \* the last check_rate_limit call: argument, time, window before, result
    admitted,     \* history: connection id -> times of all calls that returned True
    sent,         \* messages sent on the websocket for the current command, in order
    pending,      \* lines yielded by execute_command that the session has not forwarded yet
    process,      \* the child process of the current execute_command invocation
    orphans,      \* children of earlier invocations that are still running
    api_key,      \* os.getenv("ANTHROPIC_API_KEY") is set
    engine,       \* for the current command: execute_command invocations started, children spawned
    stream,       \* _stream_process_output: its locals, the pipes of the child and what it yielded
    source_code,  \* pyguard_hook.py: the code argument of validate_python_code, as a list of lines
    patterns_db,  \* pyguard_hook.py: patterns_db.json as check_pattern_matching finds it
    issues,       \* pyguard_hook.py: the list validate_python_code returned
    hook,         \* pyguard_pretool_hook: the tool, the state of the script file, the return value
    PATTERNS_DB,  \* bug_fixer.py: the global PATTERNS_DB
    lookup,       \* the last call in the process of bug_fixer.py: what it was, saw and gave
    connection    \* server.py: the connection websocket_endpoint is serving, and its history

vars == <<pc, command, is_allowed, error_msg, rate_limits, now, rl_call, admitted,
          sent, pending, process, orphans, api_key, engine,
          stream, source_code, patterns_db, issues, hook, PATTERNS_DB, lookup, connection>>

-----------------------------------------------------------------------------
(* Bounds of the model *)

MaxFrags == 3        \* a gate input is the concatenation of at most MaxFrags fragments
MaxTime == 7         \* the clock runs from 0 to MaxTime
MaxLines == 1        \* a child writes at most MaxLines lines to stdout
MaxOrphans == 1      \* children left running that the model keeps counting
MaxPipe == 2         \* lines written to one pipe of a child
MaxCodeLines == 2    \* lines of a source text given to the validator
MaxPatterns == 6     \* entries of the pattern database
MaxReads == 2        \* reads of the pattern database file the model keeps counting
MaxConnections == 2  \* connections a client opens one after the other

-----------------------------------------------------------------------------
(* Python str helpers *)

\* the character U+0060, which a TLA+ string cannot hold
BACKQUOTE == "U+0060"

\* str.isspace() / the regex class \s, on the characters of the model
IsSpace(c) == c \in {" ", "\t", "\n"}

\* re.IGNORECASE folds the letters of the subject; the patterns are lower case
Lower(c) ==
    CASE c = "P" -> "p" [] c = "Y" -> "y" [] c = "T" -> "t" [] c = "H" -> "h"
      [] c = "O" -> "o" [] c = "N" -> "n" [] c = "S" -> "s" [] c = "U" -> "u"
      [] c = "D" -> "d" [] c = "L" -> "l" [] c = "R" -> "r" [] c = "M" -> "m"
      [] OTHER -> c

\* s[i:j] with 1-based inclusive bounds
Slice(s, i, j) == [k \in 1..(j - i + 1) |-> s[i + k - 1]]

RECURSIVE Concat(_)
Concat(ss) == IF ss = <<>> THEN <<>> ELSE Head(ss) \o Concat(Tail(ss))

\* the literal lit occurs in s at position i (case-folded when fold is TRUE)
MatchAt(s, i, lit, fold) ==
    /\ i >= 1
    /\ i + Len(lit) - 1 <= Len(s)
    /\ \A k \in 1..Len(lit) :
          (IF fold THEN Lower(s[i + k - 1]) ELSE s[i + k - 1]) = lit[k]

\* lit in s
Contains(s, lit) == \E i \in 1..(Len(s) + 1) : MatchAt(s, i, lit, FALSE)

\* str.strip()
Strip(s) ==
    LET nonsp == {i \in 1..Len(s) : ~IsSpace(s[i])}
    IN  IF nonsp = {} THEN <<>>
        ELSE LET lo == CHOOSE i \in nonsp : \A j \in nonsp : i <= j
                 hi == CHOOSE i \in nonsp : \A j \in nonsp : i >= j
             IN  Slice(s, lo, hi)

\* str.split(): the maximal runs of non-whitespace characters, in order
RECURSIVE Split(_)
Split(s) ==
    IF s = <<>> THEN <<>>
    ELSE IF IsSpace(s[1]) THEN Split(Tail(s))
    ELSE LET stops == {i \in 1..Len(s) : IsSpace(s[i])}
             end == IF stops = {} THEN Len(s) + 1
                    ELSE CHOOSE i \in stops : \A j \in stops : i <= j
         IN  <<Slice(s, 1, end - 1)>> \o Split(Slice(s, end, Len(s)))

-----------------------------------------------------------------------------
(* security.py: the admission gate *)

ALLOWED_COMMANDS ==
    { <<"p","y","g","u","a","r","d">>,
      <<"p","y","t","h","o","n","3">>,
      <<"c","l","e","a","r">>,
      <<"l","s">>,
      <<"c","a","t">>,
      <<"p","w","d">>,
      <<"e","c","h","o">>,
      <<"h","e","l","p">> }

\* re.search of a pattern that is a plain literal, with re.IGNORECASE
SearchLit(s, lit) == \E i \in 1..Len(s) : MatchAt(s, i, lit, TRUE)

\* re.search of  <lit>\s
SearchLitSpace(s, lit) ==
    \E i \in 1..Len(s) :
        /\ MatchAt(s, i, lit, TRUE)
        /\ i + Len(lit) <= Len(s)
        /\ IsSpace(s[i + Len(lit)])

\* the lookahead .*pyguard at position j: . matches anything but a newline
AheadPyguard(s, j) ==
    \E k \in j..Len(s) :
        /\ MatchAt(s, k, <<"p","y","g","u","a","r","d">>, TRUE)
        /\ \A m \in j..(k - 1) : s[m] # "\n"

\* re.search of  python3?\s(?!.*pyguard)
SearchPython(s) ==
    \E i \in 1..Len(s) :
        /\ MatchAt(s, i, <<"p","y","t","h","o","n">>, TRUE)
        /\ \E opt \in {0, 1} :
              LET sp == i + 6 + opt
              IN  /\ opt = 1 => (i + 6 <= Len(s) /\ s[i + 6] = "3")
                  /\ sp <= Len(s)
                  /\ IsSpace(s[sp])
                  /\ ~AheadPyguard(s, sp + 1)

\* BLOCKED_PATTERNS with the separator, pipe and chaining patterns left out
BLOCKED_PATTERNS_NoSeparators(s) ==
    << SearchLitSpace(s, <<"r","m">>),
       SearchLit(s, <<"s","u","d","o">>),
       SearchLit(s, <<"c","u","r","l">>),
       SearchLit(s, <<"w","g","e","t">>),
       SearchLitSpace(s, <<"p","i","p">>),
       SearchPython(s),
       SearchLit(s, <<"$","(">>),
       SearchLit(s, <<BACKQUOTE>>),
       SearchLit(s, <<".",".","/">>),
       SearchLit(s, <<">">>),
       SearchLit(s, <<"<">>) >>

\* BLOCKED_PATTERNS, in the order of the list; TRUE at n when pattern n matches
BLOCKED_PATTERNS(s) ==
    << SearchLitSpace(s, <<"r","m">>),
       SearchLit(s, <<"s","u","d","o">>),
       SearchLit(s, <<"c","u","r","l">>),
       SearchLit(s, <<"w","g","e","t">>),
       SearchLitSpace(s, <<"p","i","p">>),
       SearchPython(s),
       SearchLit(s, <<"&","&">>),
       SearchLit(s, <<"|","|">>),
       SearchLit(s, <<"|">>),
       SearchLit(s, <<";">>),
       SearchLit(s, <<"$","(">>),
       SearchLit(s, <<BACKQUOTE>>),
       SearchLit(s, <<".",".","/">>),
       SearchLit(s, <<">">>),
       SearchLit(s, <<"<">>) >>

\* the error messages of validate_command
MsgEmpty == "Empty command"
MsgNotAllowed == "Command not allowed. Use 'help' for available commands."
MsgForbidden == "Command contains forbidden pattern. Use 'help' for available commands."

\* validate_command without the allow-list test of the base command
validate_command_NoAllowList(cmd) ==
    IF cmd = <<>> \/ Strip(cmd) = <<>> THEN <<FALSE, MsgEmpty>>
    ELSE LET blocked == BLOCKED_PATTERNS(cmd)
         IN  IF \E n \in 1..Len(blocked) : blocked[n]
             THEN <<FALSE, MsgForbidden>>
             ELSE <<TRUE, "">>

\* SecurityManager.validate_command: (is_allowed, error_message)
validate_command(cmd) ==
    IF cmd = <<>> \/ Strip(cmd) = <<>> THEN <<FALSE, MsgEmpty>>
    ELSE LET base_cmd == Split(Strip(cmd))[1]
             blocked == BLOCKED_PATTERNS(cmd)
         IN  IF base_cmd \notin ALLOWED_COMMANDS THEN <<FALSE, MsgNotAllowed>>
             ELSE IF \E n \in 1..Len(blocked) : blocked[n]
                  THEN <<FALSE, MsgForbidden>>
             ELSE <<TRUE, "">>

-----------------------------------------------------------------------------
(* Values shared by the specifications *)

\* str(id(websocket)) of the connections
ConnectionIds == {"c1"}

NoCall == [conn |-> "", at |-> 0, before |-> <<>>, result |-> FALSE]
NoEngine == [calls |-> 0, spawns |-> 0]
NoProcess == [state |-> "none", written |-> 0, exit_code |-> 0, overdue |-> FALSE, signals |-> <<>>]

\* the variables a specification does not use stay at these values
\* the variables of _stream_process_output and of the source validator
others == <<stream, source_code, patterns_db, issues, hook, PATTERNS_DB, lookup, connection>>

\* _stream_process_output is not running
NoStream == [at |-> "idle"]

\* there is no patterns_db.json
NoDb == [file |-> "absent", patterns |-> <<>>]

\* the hook has not returned
NoResult == [decision |-> "none", reason |-> <<>>]

\* PATTERNS_DB = None
None == [set |-> FALSE, patterns |-> <<>>]

\* no call has been made in the process of bug_fixer.py
NoLookup == [op |-> "none", outcome |-> "none", memo |-> None, seen |-> NoDb, failed |-> FALSE,
             reads |-> 0]

\* websocket_endpoint has served no connection yet
NoConnection == [id |-> "", open |-> FALSE, n |-> 0, since |-> 0]

\* no tool use is under way
NoHook == [tool_name |-> "", file |-> "missing", result |-> NoResult]

\* the stream reader and the source validator are not in use
IdleTools ==
    /\ stream = NoStream
    /\ source_code = <<>>
    /\ patterns_db = NoDb
    /\ issues = <<>>
    /\ hook = NoHook
    /\ PATTERNS_DB = None
    /\ lookup = NoLookup
    /\ connection = NoConnection

IdleRate ==
    /\ rate_limits = [c \in ConnectionIds |-> <<>>]
    /\ now = 0
    /\ rl_call = NoCall
    /\ admitted = [c \in ConnectionIds |-> <<>>]

IdleEngine ==
    /\ sent = <<>>
    /\ pending = <<>>
    /\ process = NoProcess
    /\ orphans = 0
    /\ api_key = FALSE
    /\ engine = NoEngine

-----------------------------------------------------------------------------
(* SpecGate: validate_command applied to every input of GateInputs *)

Fragments ==
    { <<"l","s">>, <<"e","c","h","o">>, <<"p","y","t","h","o","n","3">>,
      <<"p","y","g","u","a","r","d">>, <<"L","S">>, <<"P","y","t","h","o","n">>,
      <<" ">>, <<"\n">>, <<"x">>,
      <<"r","m"," ">>, <<"s","u","d","o">>, <<"S","U","D","O">>,
      <<"c","u","r","l">>, <<"w","g","e","t">>, <<"p","i","p"," ">>,
      <<"&">>, <<"|">>, <<";">>, <<BACKQUOTE>>, <<"$","(">>,
      <<".",".","/">>, <<">">>, <<"<">> }

GateInputs == { Concat(fs) : fs \in UNION { [1..n -> Fragments] : n \in 0..MaxFrags } }

InitGate ==
    /\ pc = "gate_call"
    /\ command \in GateInputs
    /\ is_allowed = FALSE
    /\ error_msg = ""
    /\ IdleRate
    /\ IdleEngine
    /\ IdleTools

\* is_allowed, error_msg = security_mgr.validate_command(command)
GateCall ==
    /\ pc = "gate_call"
    /\ is_allowed' = validate_command(command)[1]
    /\ error_msg' = validate_command(command)[2]
    /\ pc' = "gate_done"
    /\ UNCHANGED <<others, command, rate_limits, now, rl_call, admitted,
                   sent, pending, process, orphans, api_key, engine>>

NextGate == GateCall

SpecGate == InitGate /\ [][NextGate]_vars

-----------------------------------------------------------------------------
(* security.py: the rate limiter.  The clock counts minutes. *)

max_commands == 10
time_window == 5

\* check_rate_limit that keeps a timestamp exactly time_window old
check_rate_limit_KeepsBoundary(window, t) ==
    LET recent == SelectSeq(window, LAMBDA ts : t - ts <= time_window)
    IN  IF Len(recent) >= max_commands THEN <<recent, FALSE>>
        ELSE <<Append(recent, t), TRUE>>

\* check_rate_limit that rejects only above max_commands
check_rate_limit_OffByOne(window, t) ==
    LET recent == SelectSeq(window, LAMBDA ts : t - ts < time_window)
    IN  IF Len(recent) > max_commands THEN <<recent, FALSE>>
        ELSE <<Append(recent, t), TRUE>>

\* check_rate_limit that empties the window once its oldest timestamp expired
check_rate_limit_ResetsWindow(window, t) ==
    LET recent == IF window # <<>> /\ ~(t - window[1] < time_window) THEN <<>> ELSE window
    IN  IF Len(recent) >= max_commands THEN <<recent, FALSE>>
        ELSE <<Append(recent, t), TRUE>>

\* SecurityManager.check_rate_limit on the list of one connection at time t:
\* (the new list, the return value)
check_rate_limit(window, t) ==
    LET recent == SelectSeq(window, LAMBDA ts : t - ts < time_window)
    IN  IF Len(recent) >= max_commands THEN <<recent, FALSE>>
        ELSE <<Append(recent, t), TRUE>>

-----------------------------------------------------------------------------
(* SpecRate: check_rate_limit called at any times *)

InitRate ==
    /\ pc = "rate"
    /\ command = <<>>
    /\ is_allowed = FALSE
    /\ error_msg = ""
    /\ IdleRate
    /\ IdleEngine
    /\ IdleTools

\* time passes
Tick ==
    /\ now < MaxTime
    /\ now' = now + 1
    /\ UNCHANGED <<others, pc, command, is_allowed, error_msg, rate_limits, rl_call, admitted,
                   sent, pending, process, orphans, api_key, engine>>

\* security_mgr.check_rate_limit(c) working on a window that was read
\* before the last call of c was made
RateCall_StaleRead(c) ==
    LET window == IF rl_call.conn = c THEN rl_call.before ELSE rate_limits[c]
        r == check_rate_limit(window, now)
    IN  /\ pc = "rate"
        /\ rate_limits' = [rate_limits EXCEPT ![c] = r[1]]
        /\ rl_call' = [conn |-> c, at |-> now, before |-> window, result |-> r[2]]
        /\ admitted' = IF r[2] THEN [admitted EXCEPT ![c] = Append(@, now)] ELSE admitted
        /\ UNCHANGED <<others, pc, command, is_allowed, error_msg, now,
                       sent, pending, process, orphans, api_key, engine>>

\* security_mgr.check_rate_limit(c) on one window shared by all connections
RateCall_SharedWindow(c) ==
    LET r == check_rate_limit(rate_limits[c], now)
    IN  /\ pc = "rate"
        /\ rate_limits' = [d \in DOMAIN rate_limits |-> r[1]]
        /\ rl_call' = [conn |-> c, at |-> now, before |-> rate_limits[c], result |-> r[2]]
        /\ admitted' = IF r[2] THEN [admitted EXCEPT ![c] = Append(@, now)] ELSE admitted
        /\ UNCHANGED <<others, pc, command, is_allowed, error_msg, now,
                       sent, pending, process, orphans, api_key, engine>>

\* security_mgr.check_rate_limit(c)
RateCall(c) ==
    LET r == check_rate_limit(rate_limits[c], now)
    IN  /\ pc = "rate"
        /\ rate_limits' = [rate_limits EXCEPT ![c] = r[1]]
        /\ rl_call' = [conn |-> c, at |-> now, before |-> rate_limits[c], result |-> r[2]]
        /\ admitted' = IF r[2] THEN [admitted EXCEPT ![c] = Append(@, now)] ELSE admitted
        /\ UNCHANGED <<others, pc, command, is_allowed, error_msg, now,
                       sent, pending, process, orphans, api_key, engine>>

NextRate ==
    \/ Tick
    \/ \E c \in ConnectionIds : RateCall(c)

SpecRate == InitRate /\ [][NextRate]_vars

-----------------------------------------------------------------------------
(* SpecClients: the sessions of several clients calling check_rate_limit,  *)
(* each on the SecurityManager of its connection, interleaved by the event *)
(* loop                                                                    *)

\* the connection ids of the sessions that are open at the same time
Clients == {"c1", "c2"}

InitClients ==
    /\ pc = "rate"
    /\ command = <<>>
    /\ is_allowed = FALSE
    /\ error_msg = ""
    /\ rate_limits = [c \in Clients |-> <<>>]
    /\ now = 0
    /\ rl_call = NoCall
    /\ admitted = [c \in Clients |-> <<>>]
    /\ IdleEngine
    /\ IdleTools

\* the window duration passes without a call
WindowPasses ==
    /\ pc = "rate"
    /\ now + time_window <= MaxTime
    /\ now' = now + time_window
    /\ UNCHANGED <<others, pc, command, is_allowed, error_msg, rate_limits, rl_call, admitted,
                   sent, pending, process, orphans, api_key, engine>>

NextClients ==
    \/ WindowPasses
    \/ \E c \in Clients : RateCall(c)

SpecClients == InitClients /\ [][NextClients]_vars

-----------------------------------------------------------------------------
(* SpecConnections: a client that connects, sends commands, disconnects    *)
(* and connects again                                                      *)

InitConnections ==
    /\ pc = "rate"
    /\ command = <<>>
    /\ is_allowed = FALSE
    /\ error_msg = ""
    /\ rate_limits = [c \in Clients |-> <<>>]
    /\ now = 0
    /\ rl_call = NoCall
    /\ admitted = [c \in Clients |-> <<>>]
    /\ IdleEngine
    /\ IdleTools

\* Connect with one SecurityManager for the whole process, whose windows
\* outlive the connection
Connect_SharedManager(c) ==
    /\ pc = "rate"
    /\ ~connection.open
    /\ connection.n < MaxConnections
    /\ connection' = [id |-> c, open |-> TRUE, n |-> connection.n + 1,
                      since |-> Len(admitted[c])]
    /\ UNCHANGED <<pc, command, is_allowed, error_msg, rate_limits, now, rl_call, admitted,
                   sent, pending, process, orphans, api_key, engine,
                   stream, source_code, patterns_db, issues, hook, PATTERNS_DB, lookup>>

\* websocket_endpoint up to its loop: the connection is accepted under the
\* id c (the id of an object, which a later object may get again) and
\* security_mgr = SecurityManager() starts with an empty rate_limits
Connect(c) ==
    /\ pc = "rate"
    /\ ~connection.open
    /\ connection.n < MaxConnections
    /\ connection' = [id |-> c, open |-> TRUE, n |-> connection.n + 1,
                      since |-> Len(admitted[c])]
    /\ rate_limits' = [d \in Clients |-> <<>>]
    /\ UNCHANGED <<pc, command, is_allowed, error_msg, now, rl_call, admitted,
                   sent, pending, process, orphans, api_key, engine,
                   stream, source_code, patterns_db, issues, hook, PATTERNS_DB, lookup>>

\* WebSocketDisconnect: the handler returns, and with it goes security_mgr
Close ==
    /\ pc = "rate"
    /\ connection.open
    /\ connection' = [connection EXCEPT !.open = FALSE]
    /\ UNCHANGED <<pc, command, is_allowed, error_msg, rate_limits, now, rl_call, admitted,
                   sent, pending, process, orphans, api_key, engine,
                   stream, source_code, patterns_db, issues, hook, PATTERNS_DB, lookup>>

\* the session loop of the open connection checks the rate limit of a command
SessionCall ==
    /\ connection.open
    /\ RateCall(connection.id)

NextConnections ==
    \/ \E c \in Clients : Connect(c)
    \/ Close
    \/ WindowPasses
    \/ SessionCall

SpecConnections == InitConnections /\ [][NextConnections]_vars

-----------------------------------------------------------------------------
(* terminal_manager.py: the execution engine *)

\* a line yielded by execute_command: what it is and the text it carries
Line(tag, arg) == [tag |-> tag, arg |-> arg]

CLEAR_SCREEN == Line("clear", <<"CLEAR_SCREEN">>)

\* the texts of help_text, without their markup
HelpLines ==
    << "PyGuard Terminal - Available Commands:",
       "",
       "PyGuard Commands:",
       "  pyguard --help         - Show PyGuard CLI help",
       "  pyguard extract        - Extract bug patterns from /patterns",
       "  pyguard fix            - Fix bugs in Python code",
       "  pyguard analyze        - Analyze code for bugs",
       "  pyguard list-patterns  - List known bug patterns",
       "",
       "Terminal Commands:",
       "  clear                  - Clear terminal screen",
       "  ls                     - List files in current directory",
       "  pwd                    - Print working directory",
       "  cat [file]             - Display file contents",
       "",
       "Examples:",
       "  pyguard fix --code \"def test(): pass\"",
       "  pyguard analyze --file sample.py",
       "  ls",
       "",
       "Note: Only PyGuard commands are allowed. Other commands are blocked for security." >>

help_text == [i \in 1..Len(HelpLines) |-> Line("help", <<HelpLines[i]>>)]

LineNoApiKey == Line("error", <<"Error: ANTHROPIC_API_KEY not configured on server">>)
LineContactAdmin == Line("hint", <<"Contact admin to configure API key">>)
LineTimedOut == Line("timeout", <<"Command timed out after 60s">>)
LineNotFound(name) == Line("not_found", name)
LineTypeHelp == Line("hint", <<"Type help to see available commands">>)
\* str(e) of the TypeError raised by async for over the coroutine of asyncio.wait_for
LineAsyncForError ==
    Line("error", <<"Error: 'async for' requires an object with __aiter__ method, got coroutine">>)
\* str(e) of an exception raised by create_subprocess_exec
LineSpawnError == Line("error", <<"Error: spawn failed">>)

\* cmd_parts: command.split(), with the pyguard alias rewritten
CmdParts(cmd) ==
    LET parts == Split(cmd)
    IN  IF parts[1] = <<"p","y","g","u","a","r","d">>
        THEN << <<"p","y","t","h","o","n","3">>, <<"c","l","i",".","p","y">> >> \o Tail(parts)
        ELSE parts

\* what create_subprocess_exec does: the child starts, the executable (or the
\* working directory) is missing, or another exception is raised
SpawnOutcomes == {"ok", "not_found", "error"}

\* execute_command that spawns the child before it looks at the credential
execute_command_SpawnsFirst(cmd, key, outcome) ==
    IF Strip(cmd) = <<"c","l","e","a","r">>
    THEN [lines |-> <<CLEAR_SCREEN>>, spawned |-> FALSE]
    ELSE IF Strip(cmd) = <<"h","e","l","p">>
    THEN [lines |-> help_text, spawned |-> FALSE]
    ELSE IF outcome = "not_found"
    THEN [lines |-> <<LineNotFound(CmdParts(cmd)[1]), LineTypeHelp>>, spawned |-> FALSE]
    ELSE IF outcome = "error"
    THEN [lines |-> <<LineSpawnError>>, spawned |-> FALSE]
    ELSE [lines |-> <<LineAsyncForError>>, spawned |-> TRUE]

\* execute_command that compares the command with the built-in names without strip()
execute_command_NoStrip(cmd, key, outcome) ==
    IF cmd = <<"c","l","e","a","r">>
    THEN [lines |-> <<CLEAR_SCREEN>>, spawned |-> FALSE]
    ELSE IF cmd = <<"h","e","l","p">>
    THEN [lines |-> help_text, spawned |-> FALSE]
    ELSE IF /\ \/ Contains(cmd, <<"p","y","g","u","a","r","d"," ","f","i","x">>)
               \/ Contains(cmd, <<"p","y","g","u","a","r","d"," ","a","n","a","l","y","z","e">>)
            /\ ~key
    THEN [lines |-> <<LineNoApiKey, LineContactAdmin>>, spawned |-> FALSE]
    ELSE IF outcome = "not_found"
    THEN [lines |-> <<LineNotFound(CmdParts(cmd)[1]), LineTypeHelp>>, spawned |-> FALSE]
    ELSE IF outcome = "error"
    THEN [lines |-> <<LineSpawnError>>, spawned |-> FALSE]
    ELSE [lines |-> <<LineAsyncForError>>, spawned |-> TRUE]

\* TerminalManager.execute_command: the lines it yields, in order, and
\* whether it leaves a child process behind.  The child is spawned and then
\* async for line in asyncio.wait_for(...) raises TypeError at once (wait_for
\* returns a coroutine, not an async iterator), which the outer
\* except Exception turns into one error line: _stream_process_output never
\* runs and the child is neither read nor waited for.
execute_command(cmd, key, outcome) ==
    IF Strip(cmd) = <<"c","l","e","a","r">>
    THEN [lines |-> <<CLEAR_SCREEN>>, spawned |-> FALSE]
    ELSE IF Strip(cmd) = <<"h","e","l","p">>
    THEN [lines |-> help_text, spawned |-> FALSE]
    ELSE IF /\ \/ Contains(cmd, <<"p","y","g","u","a","r","d"," ","f","i","x">>)
               \/ Contains(cmd, <<"p","y","g","u","a","r","d"," ","a","n","a","l","y","z","e">>)
            /\ ~key
    THEN [lines |-> <<LineNoApiKey, LineContactAdmin>>, spawned |-> FALSE]
    ELSE IF outcome = "not_found"
    THEN [lines |-> <<LineNotFound(CmdParts(cmd)[1]), LineTypeHelp>>, spawned |-> FALSE]
    ELSE IF outcome = "error"
    THEN [lines |-> <<LineSpawnError>>, spawned |-> FALSE]
    ELSE [lines |-> <<LineAsyncForError>>, spawned |-> TRUE]

\* the n-th line a child writes to its stdout, as _stream_process_output would yield it
StdoutLine(n) == Line("out", <<"L", ToString(n)>>)
\* the lines the child p has written to its stdout so far
StdoutOf(p) == [n \in 1..p.written |-> StdoutLine(n)]
\* the exit statuses of a child
ExitCodes == {0, 1}

-----------------------------------------------------------------------------
(* server.py: the session of one connection *)

\* the messages of send_json
Message(type, line) == [type |-> type, line |-> line]
MsgRateLimit == "Rate limit exceeded. Wait 5 minutes."
ErrorMessage(text) == Message("error", Line("message", <<text>>))
StdoutMessage(line) == Message("stdout", line)
CompleteMessage == Message("complete", Line("none", <<>>))

\* the raw "command" fields the client sends
SessionInputs ==
    { <<>>,
      <<"c","l","e","a","r">>,
      <<"h","e","l","p">>,
      <<" ","l","s"," ">>,
      <<"p","y","g","u","a","r","d"," ","f","i","x"," ","x">>,
      <<"l","s"," ",";","x">>,
      <<"f","o","o">> }

Init ==
    /\ pc = "receive"
    /\ command = <<>>
    /\ is_allowed = FALSE
    /\ error_msg = ""
    /\ IdleRate
    /\ sent = <<>>
    /\ pending = <<>>
    /\ process = NoProcess
    /\ orphans = 0
    /\ api_key \in BOOLEAN
    /\ engine = NoEngine
    /\ IdleTools

\* the connection id of the session
connection_id == "c1"

\* data = await websocket.receive_json(); command = data.get("command", "").strip();
\* an empty command is skipped
Receive(raw) ==
    /\ pc = "receive"
    /\ command' = Strip(raw)
    /\ pc' = IF Strip(raw) = <<>> THEN "receive" ELSE "validate"
    /\ is_allowed' = FALSE
    /\ error_msg' = ""
    /\ sent' = <<>>
    /\ engine' = NoEngine
    /\ UNCHANGED <<others, rate_limits, now, rl_call, admitted, pending, process, orphans, api_key>>

\* receive_json raises on a message that is not JSON (or data is no dict):
\* except Exception sends a server error and the session ends
ReceiveInvalid ==
    /\ pc = "receive"
    /\ pc' = "closed"
    /\ sent' = <<ErrorMessage("Server error")>>
    /\ UNCHANGED <<others, command, is_allowed, error_msg, rate_limits, now, rl_call, admitted,
                   pending, process, orphans, api_key, engine>>

\* the client is gone: the pending receive_json or send_json raises and the session ends
Disconnect ==
    /\ pc \in {"receive", "forward"}
    /\ pc' = "closed"
    /\ pending' = <<>>
    /\ UNCHANGED <<others, command, is_allowed, error_msg, rate_limits, now, rl_call, admitted,
                   sent, process, orphans, api_key, engine>>

\* Validate that lets every command through to the rate limiter
Validate_NoContinue ==
    /\ pc = "validate"
    /\ LET v == validate_command(command)
       IN  /\ is_allowed' = v[1]
           /\ error_msg' = v[2]
    /\ pc' = "ratelimit"
    /\ UNCHANGED <<others, command, rate_limits, now, rl_call, admitted,
                   sent, pending, process, orphans, api_key, engine>>

\* is_allowed, error_msg = security_mgr.validate_command(command);
\* a denied command is answered with the error message and the loop continues
Validate ==
    /\ pc = "validate"
    /\ LET v == validate_command(command)
       IN  /\ is_allowed' = v[1]
           /\ error_msg' = v[2]
           /\ IF v[1]
              THEN /\ pc' = "ratelimit"
                   /\ sent' = sent
              ELSE \E delivered \in BOOLEAN :
                     IF delivered
                     THEN /\ sent' = Append(sent, ErrorMessage(v[2]))
                          /\ pc' = "receive"
                     ELSE /\ sent' = sent
                          /\ pc' = "closed"
    /\ UNCHANGED <<others, command, rate_limits, now, rl_call, admitted,
                   pending, process, orphans, api_key, engine>>

\* RateLimit that executes the command whatever check_rate_limit returned
RateLimit_IgnoresResult ==
    LET r == check_rate_limit(rate_limits[connection_id], now)
    IN  /\ pc = "ratelimit"
        /\ rate_limits' = [rate_limits EXCEPT ![connection_id] = r[1]]
        /\ rl_call' = [conn |-> connection_id, at |-> now,
                       before |-> rate_limits[connection_id], result |-> r[2]]
        /\ admitted' = IF r[2] THEN [admitted EXCEPT ![connection_id] = Append(@, now)]
                       ELSE admitted
        /\ pc' = "execute"
        /\ UNCHANGED <<others, command, is_allowed, error_msg, now, sent,
                       pending, process, orphans, api_key, engine>>

\* RateLimit that answers clear and help without a call of check_rate_limit
RateLimit_SkipsBuiltins ==
    LET builtin == command \in { <<"c","l","e","a","r">>, <<"h","e","l","p">> }
        r == IF builtin THEN <<rate_limits[connection_id], TRUE>>
             ELSE check_rate_limit(rate_limits[connection_id], now)
    IN  /\ pc = "ratelimit"
        /\ rate_limits' = [rate_limits EXCEPT ![connection_id] = r[1]]
        /\ rl_call' = IF builtin THEN rl_call
                      ELSE [conn |-> connection_id, at |-> now,
                            before |-> rate_limits[connection_id], result |-> r[2]]
        /\ admitted' = IF r[2] /\ ~builtin THEN [admitted EXCEPT ![connection_id] = Append(@, now)]
                       ELSE admitted
        /\ IF r[2]
           THEN /\ pc' = "execute"
                /\ sent' = sent
           ELSE \E delivered \in BOOLEAN :
                  IF delivered
                  THEN /\ sent' = Append(sent, ErrorMessage(MsgRateLimit))
                       /\ pc' = "receive"
                  ELSE /\ sent' = sent
                       /\ pc' = "closed"
        /\ UNCHANGED <<others, command, is_allowed, error_msg, now,
                       pending, process, orphans, api_key, engine>>

\* if not security_mgr.check_rate_limit(connection_id): send the rate limit
\* error and continue
RateLimit ==
    LET r == check_rate_limit(rate_limits[connection_id], now)
    IN  /\ pc = "ratelimit"
        /\ rate_limits' = [rate_limits EXCEPT ![connection_id] = r[1]]
        /\ rl_call' = [conn |-> connection_id, at |-> now,
                       before |-> rate_limits[connection_id], result |-> r[2]]
        /\ admitted' = IF r[2] THEN [admitted EXCEPT ![connection_id] = Append(@, now)]
                       ELSE admitted
        /\ IF r[2]
           THEN /\ pc' = "execute"
                /\ sent' = sent
           ELSE \E delivered \in BOOLEAN :
                  IF delivered
                  THEN /\ sent' = Append(sent, ErrorMessage(MsgRateLimit))
                       /\ pc' = "receive"
                  ELSE /\ sent' = sent
                       /\ pc' = "closed"
        /\ UNCHANGED <<others, command, is_allowed, error_msg, now,
                       pending, process, orphans, api_key, engine>>

\* terminal_mgr.execute_command(command) runs up to its first yield; a child
\* of an earlier command that still runs stays behind
ExecStart ==
    /\ pc = "execute"
    /\ \E outcome \in SpawnOutcomes :
          LET r == execute_command(command, api_key, outcome)
          IN  /\ pending' = r.lines
              /\ IF r.spawned
                 THEN /\ process.state = "running" => orphans < MaxOrphans
                      /\ process' = [state |-> "running", written |-> 0, exit_code |-> 0,
                                     overdue |-> FALSE, signals |-> <<>>]
                      /\ orphans' = IF process.state = "running" THEN orphans + 1 ELSE orphans
                      /\ engine' = [calls |-> engine.calls + 1, spawns |-> engine.spawns + 1]
                 ELSE /\ engine' = [engine EXCEPT !.calls = @ + 1]
                      /\ UNCHANGED <<process, orphans>>
    /\ pc' = "forward"
    /\ UNCHANGED <<others, command, is_allowed, error_msg, rate_limits, now, rl_call, admitted,
                   sent, api_key>>

\* one turn of the loop async for output_line in ...: send_json({"type": "stdout", "line": output_line})
Forward ==
    /\ pc = "forward"
    /\ pending # <<>>
    /\ sent' = Append(sent, StdoutMessage(Head(pending)))
    /\ pending' = Tail(pending)
    /\ UNCHANGED <<others, pc, command, is_allowed, error_msg, rate_limits, now, rl_call, admitted,
                   process, orphans, api_key, engine>>

\* SendComplete that first waits for the child to exit, without a timeout
SendComplete_WaitsForChild ==
    /\ pc = "forward"
    /\ pending = <<>>
    /\ engine.spawns > 0 => process.state = "exited"
    /\ sent' = Append(sent, CompleteMessage)
    /\ pc' = "receive"
    /\ UNCHANGED <<others, command, is_allowed, error_msg, rate_limits, now, rl_call, admitted,
                   pending, process, orphans, api_key, engine>>

\* the generator is exhausted: send_json({"type": "complete"})
SendComplete ==
    /\ pc = "forward"
    /\ pending = <<>>
    /\ sent' = Append(sent, CompleteMessage)
    /\ pc' = "receive"
    /\ UNCHANGED <<others, command, is_allowed, error_msg, rate_limits, now, rl_call, admitted,
                   pending, process, orphans, api_key, engine>>

\* the client stays quiet for a whole window duration
Wait ==
    /\ pc = "receive"
    /\ now + time_window <= MaxTime
    /\ now' = now + time_window
    /\ UNCHANGED <<others, pc, command, is_allowed, error_msg, rate_limits, rl_call, admitted,
                   sent, pending, process, orphans, api_key, engine>>

\* the child writes its next line to its stdout pipe
ChildWrite ==
    /\ process.state = "running"
    /\ process.written < MaxLines
    /\ process' = [process EXCEPT !.written = @ + 1]
    /\ UNCHANGED <<others, pc, command, is_allowed, error_msg, rate_limits, now, rl_call, admitted,
                   sent, pending, orphans, api_key, engine>>

\* the child exits with status code
ChildExit(code) ==
    /\ process.state = "running"
    /\ process' = [process EXCEPT !.state = "exited", !.exit_code = code]
    /\ UNCHANGED <<others, pc, command, is_allowed, error_msg, rate_limits, now, rl_call, admitted,
                   sent, pending, orphans, api_key, engine>>

\* a child left behind by an earlier command exits
OrphanExit ==
    /\ orphans > 0
    /\ orphans' = orphans - 1
    /\ UNCHANGED <<others, pc, command, is_allowed, error_msg, rate_limits, now, rl_call, admitted,
                   sent, pending, process, api_key, engine>>

Next ==
    \/ \E raw \in SessionInputs : Receive(raw)
    \/ ReceiveInvalid
    \/ Disconnect
    \/ Validate
    \/ RateLimit
    \/ ExecStart
    \/ Forward
    \/ SendComplete
    \/ Wait
    \/ ChildWrite
    \/ \E code \in ExitCodes : ChildExit(code)
    \/ OrphanExit

Spec == Init /\ [][Next]_vars

-----------------------------------------------------------------------------
(* SpecEngine: one execute_command invocation, consumed by the session loop *)

\* the commands the engine is invoked with
EngineCommands ==
    { <<"c","l","e","a","r">>,
      <<" ","c","l","e","a","r"," ">>,
      <<"h","e","l","p">>,
      <<"l","s">>,
      <<"c","a","t">>,
      <<"p","y","g","u","a","r","d"," ","f","i","x"," ","x">>,
      <<"p","y","g","u","a","r","d"," ","a","n","a","l","y","z","e"," ","x">>,
      <<"p","y","g","u","a","r","d"," "," ","f","i","x"," ","x">>,
      <<"p","y","g","u","a","r","d"," ","l","i","s","t","-","p","a","t","t","e","r","n","s">> }

InitEngine ==
    /\ pc = "execute"
    /\ command \in EngineCommands
    /\ is_allowed = TRUE
    /\ error_msg = ""
    /\ IdleRate
    /\ sent = <<>>
    /\ pending = <<>>
    /\ process = NoProcess
    /\ orphans = 0
    /\ api_key \in BOOLEAN
    /\ engine = NoEngine
    /\ IdleTools

\* self.timeout seconds have passed since the spawn and the child still runs
Deadline ==
    /\ process.state = "running"
    /\ ~process.overdue
    /\ process' = [process EXCEPT !.overdue = TRUE]
    /\ UNCHANGED <<others, pc, command, is_allowed, error_msg, rate_limits, now, rl_call, admitted,
                   sent, pending, orphans, api_key, engine>>

NextEngine ==
    \/ ExecStart
    \/ Forward
    \/ SendComplete
    \/ ChildWrite
    \/ \E code \in ExitCodes : ChildExit(code)
    \/ Deadline

SpecEngine == InitEngine /\ [][NextEngine]_vars

\* the event loop keeps running the generator and its consumer; nothing makes
\* a child write or exit
FairEngine == WF_vars(ExecStart) /\ WF_vars(Forward) /\ WF_vars(SendComplete)

SpecEngineLive == SpecEngine /\ FairEngine

-----------------------------------------------------------------------------
(* SpecStream: _stream_process_output reading the two pipes of a child *)

Streams == {"stdout", "stderr"}

\* what line.decode('utf-8').rstrip() makes of a line the child wrote:
\* a non-empty str, the empty str, or a UnicodeDecodeError
LineKinds == {"text", "blank", "undecodable"}

\* the locals of the generator at its first statement, an empty pipe pair
FreshStream ==
    [ at       |-> "stdout",
      done     |-> [s \in Streams |-> FALSE],
      pipe     |-> [s \in Streams |-> <<>>],
      eof      |-> [s \in Streams |-> FALSE],
      written  |-> [s \in Streams |-> 0],
      yielded  |-> <<>> ]

\* one read block: wait_for(readline(), 0.1), decode, rstrip, yield.
\* drain tells the blocks after the returncode test, where a timeout marks
\* the stream as done, from the blocks before it, where a timeout is passed
ReadLine(st, s, drain) ==
    IF st.pipe[s] # <<>>
    THEN LET line == Head(st.pipe[s])
             rest == [st EXCEPT !.pipe[s] = Tail(@)]
         IN  IF line.kind = "undecodable"
             THEN [rest EXCEPT !.at = "raised"]
             ELSE IF line.kind = "text"
             THEN [rest EXCEPT !.yielded = Append(@, [stream |-> s, n |-> line.n])]
             ELSE rest
    ELSE IF st.eof[s] \/ drain
    THEN [st EXCEPT !.done[s] = TRUE]
    ELSE st

\* the read block of stream s, skipped when the stream is done
ReadBlock(st, s, drain) == IF st.done[s] THEN st ELSE ReadLine(st, s, drain)

\* while not (stdout_done and stderr_done)
WhileTest(st) == IF st.done["stdout"] /\ st.done["stderr"] THEN "returned" ELSE "stdout"

\* r with the generator at position next, unless the read raised
Goto(r, next) == IF r.at = "raised" THEN r ELSE [r EXCEPT !.at = next]

InitStream ==
    /\ pc = "stream"
    /\ command = <<>>
    /\ is_allowed = FALSE
    /\ error_msg = ""
    /\ IdleRate
    /\ sent = <<>>
    /\ pending = <<>>
    /\ process = [state |-> "running", written |-> 0, exit_code |-> 0, overdue |-> FALSE, signals |-> <<>>]
    /\ orphans = 0
    /\ api_key = FALSE
    /\ engine = NoEngine
    /\ stream = FreshStream
    /\ source_code = <<>>
    /\ patterns_db = NoDb
    /\ issues = <<>>
    /\ hook = NoHook
    /\ PATTERNS_DB = None
    /\ lookup = NoLookup
    /\ connection = NoConnection

\* the generator moves from st to its next state
StreamStep(next) ==
    /\ stream' = next
    /\ UNCHANGED <<pc, command, is_allowed, error_msg, rate_limits, now, rl_call, admitted,
                   sent, pending, process, orphans, api_key, engine,
                   source_code, patterns_db, issues, hook, PATTERNS_DB, lookup, connection>>

\* the read of stdout at the top of the loop
ReadStdout ==
    /\ stream.at = "stdout"
    /\ StreamStep(Goto(ReadBlock(stream, "stdout", FALSE), "stderr"))

\* the read of stderr
ReadStderr ==
    /\ stream.at = "stderr"
    /\ StreamStep(Goto(ReadBlock(stream, "stderr", FALSE), "check"))

\* if process.returncode is not None
CheckReturncode ==
    /\ stream.at = "check"
    /\ StreamStep([stream EXCEPT !.at = IF process.state = "exited"
                                         THEN "drain_stdout"
                                         ELSE WhileTest(stream)])

\* the read of stdout after the child has exited
DrainStdout ==
    /\ stream.at = "drain_stdout"
    /\ StreamStep(Goto(ReadBlock(stream, "stdout", TRUE), "drain_stderr"))

\* the read of stderr after the child has exited, the break test and the loop test
DrainStderr ==
    /\ stream.at = "drain_stderr"
    /\ LET r == ReadBlock(stream, "stderr", TRUE)
       IN  StreamStep(Goto(r, WhileTest(r)))

\* the child, or a process that inherited the pipe, writes a line to stream s
PipeWrite(s, kind) ==
    /\ ~stream.eof[s]
    /\ stream.written[s] < MaxPipe
    /\ StreamStep([stream EXCEPT !.pipe[s] = Append(@, [kind |-> kind, n |-> stream.written[s] + 1]),
                                 !.written[s] = @ + 1])

\* the last writer of stream s closes it
PipeClose(s) ==
    /\ ~stream.eof[s]
    /\ StreamStep([stream EXCEPT !.eof[s] = TRUE])

NextStream ==
    \/ ReadStdout
    \/ ReadStderr
    \/ CheckReturncode
    \/ DrainStdout
    \/ DrainStderr
    \/ \E s \in Streams, kind \in LineKinds : PipeWrite(s, kind)
    \/ \E s \in Streams : PipeClose(s)
    \/ \E c \in ExitCodes : ChildExit(c)

SpecStream == InitStream /\ [][NextStream]_vars

-----------------------------------------------------------------------------
(* SpecValidator: validate_python_code applied to a source text *)

\* The lines a source text is made of, each a statement at column 0:
\*   "plain"      x = 1
\*   "comment"    # if x = 1
\*   "assign_if"  if x = 1:
\*   "no_colon"   if x == 1
\*   "one_liner"  if x == 1: pass
\*   "fizz"       def fizzbuzz(): fizzbuzz(3)
\*   "deep"       x = ---...---1, with so many unary minus signs that the
\*                parser gives up with a MemoryError
SourceLines == {"plain", "comment", "assign_if", "no_colon", "one_liner", "fizz", "deep"}

\* the source texts: code.split('\n') is a list of at most MaxCodeLines lines
Codes == UNION { [1..n -> SourceLines] : n \in 0..MaxCodeLines }

\* calculate_similarity(code_lower, pattern_code) in hundredths, for a
\* pattern of the database and a source text that is not blank
Similarities == {60, 61}

\* patterns_db.json: missing, not a JSON document, or its list of patterns,
\* each with its similarity to the source text under validation
PatternDbs ==
    { [file |-> f, patterns |-> <<>>] : f \in {"absent", "unreadable"} }
        \cup { [file |-> "loaded", patterns |-> ps] :
                   ps \in UNION { [1..n -> [similarity : Similarities]] : n \in 0..MaxPatterns } }

\* what the parser makes of one line
Parses(line) ==
    IF line \in {"assign_if", "no_colon"} THEN "SyntaxError"
    ELSE IF line = "deep" THEN "MemoryError"
    ELSE "ok"

\* ast.parse(code): the parser stops at the first line it cannot parse
ast_parse(src) ==
    LET bad == { i \in DOMAIN src : Parses(src[i]) # "ok" }
    IN  IF bad = {}
        THEN [outcome |-> "ok", lineno |-> 0]
        ELSE LET first == CHOOSE i \in bad : \A j \in bad : i <= j
             IN  [outcome |-> Parses(src[first]), lineno |-> first]

Issue(type, line, severity) == [type |-> type, line |-> line, severity |-> severity]

\* check_syntax: one SyntaxError issue for a SyntaxError of the parser,
\* nothing when the source parses and nothing for any other exception
check_syntax(src) ==
    LET r == ast_parse(src)
    IN  IF r.outcome = "SyntaxError"
        THEN <<Issue("SyntaxError", r.lineno, "error")>>
        ELSE <<>>

\* the three rules of check_static_analysis applied to line i of src, in the order of the code
LineIssues(src, i) ==
    LET line == src[i]
        comparison ==
            \* (if|elif|while) followed by name = name, and no ==, !=, <=, >= in the line
            IF line = "assign_if"
            THEN <<Issue("ComparisonError", i, "error")>> ELSE <<>>
        colon ==
            \* a control keyword at the start and no colon at the end of the line
            IF line \in {"no_colon", "one_liner", "fizz"}
            THEN <<Issue("MissingColon", i, "error")>> ELSE <<>>
        argument ==
            \* fizzbuzz in the text, a def without parameters in this line and
            \* a call fizzbuzz(<digits>) in the text
            IF line = "fizz"
            THEN <<Issue("ArgumentMismatch", i, "error")>> ELSE <<>>
    IN  comparison \o colon \o argument

RECURSIVE StaticFrom(_, _)
StaticFrom(src, i) ==
    IF i > Len(src) THEN <<>> ELSE LineIssues(src, i) \o StaticFrom(src, i + 1)

\* check_static_analysis: comments are skipped, the other lines checked in order
check_static_analysis(src) == StaticFrom(src, 1)

\* calculate_similarity: 0.0 when the source text has no character besides white space
calculate_similarity(src, pattern) == IF src = <<>> THEN 0 ELSE pattern.similarity

RECURSIVE FirstMatch(_, _, _)
FirstMatch(src, patterns, i) ==
    IF i > Len(patterns) \/ i > 5 THEN <<>>
    ELSE IF calculate_similarity(src, patterns[i]) > 60
    THEN <<[type |-> "PatternMatch", line |-> 0, severity |-> "warning", pattern |-> i]>>
    ELSE FirstMatch(src, patterns, i + 1)

\* check_pattern_matching: nothing without a readable database, else the
\* first of the first 5 patterns that is more than 0.6 similar
check_pattern_matching(src, db) ==
    IF db.file \in {"absent", "unreadable"} THEN <<>> ELSE FirstMatch(src, db.patterns, 1)

\* validate_python_code that runs the pattern tier whatever tier 2 found
validate_python_code_PatternsAlways(src, db) ==
    LET syntax_issues == check_syntax(src)
    IN  IF syntax_issues # <<>>
        THEN syntax_issues
        ELSE check_static_analysis(src) \o check_pattern_matching(src, db)

\* validate_python_code: three tiers
validate_python_code(src, db) ==
    LET syntax_issues == check_syntax(src)
    IN  IF syntax_issues # <<>>
        THEN syntax_issues
        ELSE LET static_issues == check_static_analysis(src)
             IN  IF \E i \in DOMAIN static_issues : static_issues[i].severity = "error"
                 THEN static_issues
                 ELSE static_issues \o check_pattern_matching(src, db)

InitValidator ==
    /\ pc = "validator_call"
    /\ command = <<>>
    /\ is_allowed = FALSE
    /\ error_msg = ""
    /\ IdleRate
    /\ IdleEngine
    /\ stream = NoStream
    /\ source_code \in Codes
    /\ patterns_db \in PatternDbs
    /\ issues = <<>>
    /\ hook = NoHook
    /\ PATTERNS_DB = None
    /\ lookup = NoLookup
    /\ connection = NoConnection

\* issues = validate_python_code(code, file_path)
ValidatorCall ==
    /\ pc = "validator_call"
    /\ issues' = validate_python_code(source_code, patterns_db)
    /\ pc' = "validator_done"
    /\ UNCHANGED <<command, is_allowed, error_msg, rate_limits, now, rl_call, admitted,
                   sent, pending, process, orphans, api_key, engine,
                   stream, source_code, patterns_db, hook, PATTERNS_DB, lookup, connection>>

NextValidator == ValidatorCall

SpecValidator == InitValidator /\ [][NextValidator]_vars

-----------------------------------------------------------------------------
(* SpecHook: pyguard_pretool_hook called for one tool use *)

\* the regex class \w on the characters of the model: all of them but white
\* space and the punctuation listed here
IsWord(c) ==
    /\ ~IsSpace(c)
    /\ c \notin {".", "/", "-", "'", "(", ")", "&", "|", ";", ">", "<", "$", "=", BACKQUOTE}

\* the alternatives of (python|python3|py), in the order the regex tries them
Interpreters ==
    << <<"p","y","t","h","o","n">>, <<"p","y","t","h","o","n","3">>, <<"p","y">> >>

\* \b(python|python3|py)\s matches s at position i with alternative w
InterpreterAt(s, i, w) ==
    /\ i = 1 \/ ~IsWord(s[i - 1])
    /\ MatchAt(s, i, w, FALSE)
    /\ i + Len(w) <= Len(s)
    /\ IsSpace(s[i + Len(w)])

\* is_python_execution: re.search(r'\b(python|python3|py)\s+', command)
is_python_execution(s) ==
    \E i \in 1..Len(s) : \E k \in DOMAIN Interpreters : InterpreterAt(s, i, Interpreters[k])

\* the end of the maximal run of characters in s from position b on that
\* satisfy (space = TRUE) or do not satisfy (space = FALSE) \s; b - 1 if empty
RunEnd(s, b, space) ==
    LET stops == { j \in b..Len(s) : IsSpace(s[j]) # space }
    IN  IF stops = {} THEN Len(s)
        ELSE (CHOOSE j \in stops : \A k \in stops : j <= k) - 1

\* group 1 of \s+([^\s]+\.py) matched at position a of s, or <<>> if it does
\* not match: the white space, then the longest prefix of the following
\* argument that ends in .py and has a character before it
PathAt(s, a) ==
    LET b == RunEnd(s, a, TRUE) + 1
        e == RunEnd(s, b, FALSE)
        ends == { k \in (b + 1)..(e - 2) : MatchAt(s, k, <<".","p","y">>, FALSE) }
    IN  IF b = a \/ ends = {} THEN <<>>
        ELSE Slice(s, b, (CHOOSE k \in ends : \A j \in ends : k >= j) + 2)

\* the positions where r'\b(?:python|python3|py)\s+([^\s]+\.py)' matches
FileMatches(s) ==
    { i \in 1..Len(s) :
        \E k \in DOMAIN Interpreters :
            /\ InterpreterAt(s, i, Interpreters[k])
            /\ PathAt(s, i + Len(Interpreters[k])) # <<>> }

\* extract_python_file: group 1 of the leftmost match; None is <<>>
extract_python_file(s) ==
    IF FileMatches(s) = {} THEN <<>>
    ELSE LET i == CHOOSE m \in FileMatches(s) : \A n \in FileMatches(s) : m <= n
             k == CHOOSE j \in DOMAIN Interpreters : InterpreterAt(s, i, Interpreters[j])
         IN  PathAt(s, i + Len(Interpreters[k]))

\* the detailed entry of one issue in the message
Detail(part, issue) == [part |-> part, type |-> issue.type, line |-> issue.line]

\* format_issues_message: the parts of the message, in order
format_issues_message(iss) ==
    LET errors == SelectSeq(iss, LAMBDA i : i.severity = "error")
        warnings == SelectSeq(iss, LAMBDA i : i.severity = "warning")
    IN  <<[part |-> "title"]>>
        \o (IF errors = <<>> THEN <<>>
            ELSE <<[part |-> "errors_found", count |-> Len(errors)]>>
                 \o [k \in 1..Len(errors) |-> Detail("error", errors[k])])
        \o (IF warnings = <<>> THEN <<>>
            ELSE <<[part |-> "warnings_found", count |-> Len(warnings)]>>
                 \o [k \in 1..Len(warnings) |-> Detail("warning", warnings[k])])
        \o <<[part |-> "please_fix"]>>

\* the return values of the hook
Allow == [decision |-> "allow", reason |-> <<>>]
Deny(reason) == [decision |-> "deny", reason |-> reason]

\* pyguard_pretool_hook that validates for every tool
pyguard_pretool_hook_AnyTool(tool_name, cmd, file, text, db) ==
    IF ~is_python_execution(cmd) THEN [result |-> Allow, issues |-> <<>>]
    ELSE IF extract_python_file(cmd) = <<>> THEN [result |-> Allow, issues |-> <<>>]
    ELSE IF file # "readable" THEN [result |-> Allow, issues |-> <<>>]
    ELSE LET found == validate_python_code(text, db)
         IN  IF found = <<>> THEN [result |-> Allow, issues |-> <<>>]
             ELSE [result |-> Deny(format_issues_message(found)), issues |-> found]

\* pyguard_pretool_hook that denies only when an issue is an error
pyguard_pretool_hook_ErrorsOnly(tool_name, cmd, file, text, db) ==
    IF tool_name # "Bash" THEN [result |-> Allow, issues |-> <<>>]
    ELSE IF ~is_python_execution(cmd) THEN [result |-> Allow, issues |-> <<>>]
    ELSE IF extract_python_file(cmd) = <<>> THEN [result |-> Allow, issues |-> <<>>]
    ELSE IF file # "readable" THEN [result |-> Allow, issues |-> <<>>]
    ELSE LET found == validate_python_code(text, db)
         IN  IF \A i \in DOMAIN found : found[i].severity # "error"
             THEN [result |-> Allow, issues |-> <<>>]
             ELSE [result |-> Deny(format_issues_message(found)), issues |-> found]

\* pyguard_pretool_hook: its return value and the issues it found.  file is
\* the state of the extracted path (missing, unreadable, readable), text
\* what read_text returns for it
pyguard_pretool_hook(tool_name, cmd, file, text, db) ==
    IF tool_name # "Bash" THEN [result |-> Allow, issues |-> <<>>]
    ELSE IF ~is_python_execution(cmd) THEN [result |-> Allow, issues |-> <<>>]
    ELSE IF extract_python_file(cmd) = <<>> THEN [result |-> Allow, issues |-> <<>>]
    ELSE IF file # "readable" THEN [result |-> Allow, issues |-> <<>>]
    ELSE LET found == validate_python_code(text, db)
         IN  IF found = <<>> THEN [result |-> Allow, issues |-> <<>>]
             ELSE [result |-> Deny(format_issues_message(found)), issues |-> found]

\* the commands of the tool uses: the table of test_command_detection, and
\* some more
HookCommands ==
    { <<"p","y","t","h","o","n"," ","s","c","r","i","p","t",".","p","y">>,
      <<"p","y","t","h","o","n","3"," ","/","p","a","t","h","/","t","o","/","f","i","l","e",".","p","y">>,
      <<"p","y"," ","m","a","i","n",".","p","y">>,
      <<"e","c","h","o"," ","h","e","l","l","o">>,
      <<"n","p","m"," ","s","t","a","r","t">>,
      <<"p","y","t","h","o","n"," ","-","c"," ","'","p","r","i","n","t","(","1",")","'">>,
      <<"c","a","t"," ","s","c","r","i","p","t",".","p","y">>,
      <<"p","y","t","h","o","n"," "," ","a",".","p","y",".","p","y","c">>,
      <<"n","u","m","p","y"," ","a",".","p","y">> }

\* the pattern databases of the hook runs: none, or one entry
HookDbs == { db \in PatternDbs : Len(db.patterns) <= 1 }

InitHook ==
    /\ pc = "hook_call"
    /\ command \in HookCommands
    /\ is_allowed = FALSE
    /\ error_msg = ""
    /\ IdleRate
    /\ IdleEngine
    /\ stream = NoStream
    /\ source_code \in Codes
    /\ patterns_db \in HookDbs
    /\ issues = <<>>
    /\ PATTERNS_DB = None
    /\ lookup = NoLookup
    /\ connection = NoConnection
    /\ hook \in [tool_name : {"Bash", "Read"},
                 file : {"missing", "unreadable", "readable"},
                 result : {NoResult}]

\* return value = await pyguard_pretool_hook(input_data, tool_use_id, context)
HookCall ==
    LET r == pyguard_pretool_hook(hook.tool_name, command, hook.file, source_code, patterns_db)
    IN  /\ pc = "hook_call"
        /\ hook' = [hook EXCEPT !.result = r.result]
        /\ issues' = r.issues
        /\ pc' = "hook_done"
        /\ UNCHANGED <<command, is_allowed, error_msg, rate_limits, now, rl_call, admitted,
                       sent, pending, process, orphans, api_key, engine,
                       stream, source_code, patterns_db, PATTERNS_DB, lookup, connection>>

NextHook == HookCall

SpecHook == InitHook /\ [][NextHook]_vars

-----------------------------------------------------------------------------
(* SpecLookup: bug_fixer.load_patterns_db and the validator in one process, *)
(* while patterns_db.json comes and goes                                    *)

\* the source texts validated in this process
LookupCodes == { <<>>, <<"plain">>, <<"one_liner">> }

\* load_patterns_db that memoizes an empty database when the file is missing
load_patterns_db_MemoizesFailure(memo, db) ==
    IF memo.set THEN [memo |-> memo, outcome |-> "returned"]
    ELSE IF db.file = "absent"
    THEN [memo |-> [set |-> TRUE, patterns |-> <<>>], outcome |-> "FileNotFoundError"]
    ELSE IF db.file = "unreadable" THEN [memo |-> memo, outcome |-> "JSONDecodeError"]
    ELSE [memo |-> [set |-> TRUE, patterns |-> db.patterns], outcome |-> "returned"]

\* load_patterns_db: the new value of PATTERNS_DB and how the call ended
load_patterns_db(memo, db) ==
    IF memo.set THEN [memo |-> memo, outcome |-> "returned"]
    ELSE IF db.file = "absent" THEN [memo |-> memo, outcome |-> "FileNotFoundError"]
    ELSE IF db.file = "unreadable" THEN [memo |-> memo, outcome |-> "JSONDecodeError"]
    ELSE [memo |-> [set |-> TRUE, patterns |-> db.patterns], outcome |-> "returned"]

\* the db_path argument of load_patterns_db: None, which stands for
\* patterns_db.json next to the module, or the path of another file
Paths == {"None", "elsewhere"}

\* the database file kept at the other path
ElsewhereDb == [file |-> "loaded", patterns |-> <<[similarity |-> 61]>>]

\* the file a call of load_patterns_db with this argument looks at
FileAt(db_path) == IF db_path = "None" THEN patterns_db ELSE ElsewhereDb

\* load_patterns_db opens the file: PATTERNS_DB is unset and the file exists
LoadOpens(memo, db) == ~memo.set /\ db.file # "absent"

\* validate_python_code opens patterns_db.json: check_pattern_matching is
\* reached, which is when no issue so far is an error, and the file exists
ValidatorOpens(src, db) ==
    /\ check_syntax(src) = <<>>
    /\ \A i \in DOMAIN check_static_analysis(src) :
           check_static_analysis(src)[i].severity # "error"
    /\ db.file # "absent"

InitLookup ==
    /\ pc = "lookup"
    /\ command = <<>>
    /\ is_allowed = FALSE
    /\ error_msg = ""
    /\ IdleRate
    /\ IdleEngine
    /\ stream = NoStream
    /\ source_code \in LookupCodes
    /\ patterns_db = NoDb
    /\ issues = <<>>
    /\ hook = NoHook
    /\ PATTERNS_DB = None
    /\ lookup = NoLookup
    /\ connection = NoConnection

\* a step of this process or of its environment
LookupStep ==
    /\ pc = "lookup"
    /\ UNCHANGED <<pc, command, is_allowed, error_msg, rate_limits, now, rl_call, admitted,
                   sent, pending, process, orphans, api_key, engine,
                   stream, source_code, hook, connection>>

\* python cli.py extract, or anything else, writes patterns_db.json
FileWrite(db) ==
    /\ LookupStep
    /\ db.file # "absent"
    /\ db # patterns_db
    /\ patterns_db' = db
    /\ UNCHANGED <<issues, PATTERNS_DB, lookup>>

\* patterns_db.json is removed
FileRemove ==
    /\ LookupStep
    /\ patterns_db.file # "absent"
    /\ patterns_db' = NoDb
    /\ UNCHANGED <<issues, PATTERNS_DB, lookup>>

\* db = load_patterns_db(db_path)
LoadCall(db_path) ==
    LET file == FileAt(db_path)
        r == load_patterns_db(PATTERNS_DB, file)
        reads == lookup.reads + IF LoadOpens(PATTERNS_DB, file) THEN 1 ELSE 0
    IN  /\ LookupStep
        /\ reads <= MaxReads
        /\ PATTERNS_DB' = r.memo
        /\ lookup' = [op |-> "load", outcome |-> r.outcome, memo |-> PATTERNS_DB,
                      seen |-> file,
                      failed |-> lookup.failed \/ r.outcome = "FileNotFoundError",
                      reads |-> reads]
        /\ UNCHANGED <<patterns_db, issues>>

\* issues = validate_python_code(code, file_path)
ValidateCall ==
    LET reads == lookup.reads + IF ValidatorOpens(source_code, patterns_db) THEN 1 ELSE 0
    IN  /\ LookupStep
        /\ reads <= MaxReads
        /\ issues' = validate_python_code(source_code, patterns_db)
        /\ lookup' = [op |-> "validate", outcome |-> "returned", memo |-> PATTERNS_DB,
                      seen |-> patterns_db, failed |-> lookup.failed, reads |-> reads]
        /\ UNCHANGED <<patterns_db, PATTERNS_DB>>

NextLookup ==
    \/ \E db \in HookDbs : FileWrite(db)
    \/ FileRemove
    \/ \E db_path \in Paths : LoadCall(db_path)
    \/ ValidateCall

SpecLookup == InitLookup /\ [][NextLookup]_vars

-----------------------------------------------------------------------------
(* Claims about the admission gate (SpecGate) *)

\* t is the first whitespace-delimited token of s
HasBaseToken(s, t) ==
    \E i \in 1..Len(s) :
        /\ \A k \in 1..(i - 1) : IsSpace(s[k])
        /\ MatchAt(s, i, t, FALSE)
        /\ \A k \in 1..Len(t) : ~IsSpace(t[k])
        /\ i + Len(t) > Len(s) \/ IsSpace(s[i + Len(t)])

BaseAllowed(s) == \E t \in ALLOWED_COMMANDS : HasBaseToken(s, t)

\* C2: a command whose first whitespace-delimited token is not on the
\* allow-list is denied, whatever the rest of the string contains.
C2_BaseNotAllowedDenied ==
    (pc = "gate_done" /\ ~BaseAllowed(command)) => ~is_allowed

\* a denied command of several tokens, free of blocked patterns, with a base
\* token off the allow-list
C2_Witness ==
    /\ pc = "gate_done"
    /\ ~BaseAllowed(command)
    /\ Len(Split(command)) >= 2
    /\ \A n \in 1..Len(BLOCKED_PATTERNS(command)) : ~BLOCKED_PATTERNS(command)[n]
    /\ ~is_allowed
    /\ error_msg = MsgNotAllowed

\* the blocked texts the claim lists
ListedPatterns ==
    { <<"&","&">>, <<"|","|">>, <<";">>, <<"|">>, <<BACKQUOTE>>, <<"$","(">>,
      <<".",".","/">>, <<"<">>, <<">">>, <<"r","m"," ">>, <<"s","u","d","o">>,
      <<"c","u","r","l">>, <<"w","g","e","t">>, <<"p","i","p"," ">> }

\* C3: a command that contains a blocked pattern anywhere in its text is
\* denied, even when its base token is on the allow-list.
C3_BlockedPatternDenied ==
    (pc = "gate_done" /\ \E p \in ListedPatterns : Contains(command, p)) => ~is_allowed

\* an allow-listed base command followed by a command separator is denied as forbidden
C3_Witness ==
    /\ pc = "gate_done"
    /\ BaseAllowed(command)
    /\ Contains(command, <<";">>)
    /\ ~is_allowed
    /\ error_msg = MsgForbidden

\* C4 (as claimed): every admitted command whose base token is the interpreter
\* python3 routes through the pyguard CLI; the interpreter alone is denied.
C4_InterpreterOnlyViaPyguard ==
    (pc = "gate_done" /\ HasBaseToken(command, <<"p","y","t","h","o","n","3">>) /\ is_allowed)
        => Contains(command, <<"p","y","g","u","a","r","d">>)

-----------------------------------------------------------------------------
(* Claims about the rate limiter (SpecRate) *)

\* the timestamps of w that are younger than the window duration at time t
Fresh(w, t) == SelectSeq(w, LAMBDA ts : t - ts < time_window)

\* a check_rate_limit call has been made
Called == rl_call.conn \in ConnectionIds

\* C6: a call first drops every timestamp older than the window duration;
\* if max_commands or more remain it returns False and records nothing,
\* otherwise it appends now and returns True.
C6_PruneCheckAppend ==
    Called =>
        LET kept == Fresh(rl_call.before, rl_call.at)
        IN  /\ rl_call.result = (Len(kept) < max_commands)
            /\ rl_call.result => rate_limits[rl_call.conn] = Append(kept, rl_call.at)
            /\ ~rl_call.result => rate_limits[rl_call.conn] = kept

\* a call that pruned an expired timestamp and recorded itself
C6_Witness ==
    /\ Called
    /\ rl_call.result
    /\ Len(Fresh(rl_call.before, rl_call.at)) < Len(rl_call.before)
    /\ Len(rate_limits[rl_call.conn]) > 1

\* number of admitted calls of c in the interval [s, s + time_window)
AdmittedIn(c, s) ==
    Cardinality({ i \in DOMAIN admitted[c] :
                    s <= admitted[c][i] /\ admitted[c][i] < s + time_window })

\* C7: no interval shorter than the window duration holds more than
\* max_commands admitted calls of one client, wherever it starts; the call
\* after max_commands admitted calls inside the window is rejected; a window
\* never holds more than max_commands timestamps.
C7_SlidingWindowBound ==
    /\ \A c \in ConnectionIds : \A s \in 0..MaxTime : AdmittedIn(c, s) <= max_commands
    /\ \A c \in ConnectionIds : Len(rate_limits[c]) <= max_commands
    /\ (Called /\ Len(Fresh(rl_call.before, rl_call.at)) = max_commands) => ~rl_call.result

\* more than max_commands calls were admitted over time, the window is full
\* again and the last call was rejected
C7_Witness ==
    /\ Called
    /\ ~rl_call.result
    /\ Len(admitted[rl_call.conn]) > max_commands
    /\ Len(rate_limits[rl_call.conn]) = max_commands
    /\ \E s \in 1..MaxTime : AdmittedIn(rl_call.conn, s) = max_commands

\* the call r found a full window whose oldest timestamp, and only that one, had expired
FreedOne(r) ==
    /\ r.conn \in ConnectionIds
    /\ Len(r.before) = max_commands
    /\ ~(r.at - r.before[1] < time_window)
    /\ r.at - r.before[2] < time_window

\* C8: with a full window, once time has passed the window duration from the
\* oldest admitted call but not from the second oldest, exactly one further
\* call is admitted and the call that follows it is rejected.
C8_FreesExactlyOne ==
    /\ [](FreedOne(rl_call) =>
            /\ rl_call.result
            /\ Len(rate_limits[rl_call.conn]) = max_commands)
    /\ [][ ( /\ FreedOne(rl_call)
             /\ rl_call' # rl_call
             /\ rl_call'.conn = rl_call.conn
             /\ rl_call'.at - rl_call.before[2] < time_window )
           => ~rl_call'.result ]_vars

\* the call after the one that took the freed place was rejected
C8_Witness ==
    /\ Called
    /\ ~rl_call.result
    /\ Len(rl_call.before) = max_commands
    /\ rl_call.before[max_commands] = rl_call.at
    /\ rl_call.at - rl_call.before[1] < time_window
    /\ Len(admitted[rl_call.conn]) = max_commands + 1
    /\ ~(rl_call.at - admitted[rl_call.conn][1] < time_window)
    /\ rl_call.at - admitted[rl_call.conn][2] < time_window

-----------------------------------------------------------------------------
(* Claims about the session and the execution engine (Spec) *)

\* the step is a step of the session code, not of the clock or of a child
SessionStep == pc' # pc \/ sent' # sent \/ command' # command

\* C1: a command reaches execute_command only after validate_command allowed
\* it and, after that, check_rate_limit returned True for the connection; a
\* command the rate limiter rejects gets an error of its own and is not executed.
C1_AdmissionThenRateThenExecute ==
    [][ /\ (pc' = "ratelimit" /\ pc # "ratelimit") => (pc = "validate" /\ is_allowed')
        /\ (pc' = "execute" /\ pc # "execute") =>
              /\ pc = "ratelimit"
              /\ is_allowed
              /\ rl_call'.conn = connection_id
              /\ rl_call'.at = now
              /\ rl_call'.before = rate_limits[connection_id]
              /\ rl_call'.result
        /\ engine'.calls > engine.calls => (pc = "execute" /\ is_allowed /\ rl_call.result)
        /\ (pc = "ratelimit" /\ pc' # pc /\ ~rl_call'.result) =>
              /\ pc' \in {"receive", "closed"}
              /\ pc' = "receive" => sent' = Append(sent, ErrorMessage(MsgRateLimit))
              /\ MsgRateLimit \notin {MsgEmpty, MsgNotAllowed, MsgForbidden}
              /\ engine' = NoEngine
              /\ pending' = <<>>
              /\ process' = process
      ]_vars

\* an admitted command was rejected by the rate limiter and answered with the
\* rate limit error
C1_Witness ==
    /\ pc = "receive"
    /\ is_allowed
    /\ ~rl_call.result
    /\ rl_call.at = now
    /\ sent = <<ErrorMessage(MsgRateLimit)>>
    /\ engine = NoEngine

\* C5: a command the admission gate denies is answered with the rejection
\* message, reaches neither the rate limiter nor the execution engine, and
\* changes no state: the rate window is as before and no child is spawned.
C5_DenialChangesNothing ==
    /\ [](pc \in {"ratelimit", "execute", "forward"} => is_allowed)
    /\ [][ (pc = "validate" /\ pc' # pc /\ ~is_allowed') =>
              /\ pc' \in {"receive", "closed"}
              /\ pc' = "receive" =>
                    /\ sent' = Append(sent, ErrorMessage(error_msg'))
                    /\ error_msg' \in {MsgNotAllowed, MsgForbidden}
              /\ rate_limits' = rate_limits
              /\ rl_call' = rl_call
              /\ admitted' = admitted
              /\ process' = process
              /\ orphans' = orphans
              /\ engine' = NoEngine
              /\ pending' = <<>>
         ]_vars

\* a denied command was answered while the window already held timestamps
C5_Witness ==
    /\ pc = "receive"
    /\ ~is_allowed
    /\ sent = <<ErrorMessage(MsgForbidden)>>
    /\ Len(rate_limits[connection_id]) > 0
    /\ engine = NoEngine

\* the command is over: the loop is back at receive_json after execute_command ran
CommandDone == pc = "receive" /\ engine.calls = 1

\* C9 (as claimed): when the child of an accepted command has written its
\* lines L1..Ln to stdout and exited 0, the client got exactly the stdout
\* events L1..Ln, in order, followed by exactly one complete event.
C9_StdoutRoundTrip ==
    (CommandDone /\ engine.spawns = 1 /\ process.state = "exited" /\ process.exit_code = 0)
        => sent = [n \in 1..process.written |-> StdoutMessage(StdoutLine(n))]
                    \o <<CompleteMessage>>

\* a terminal event: complete, or a timeout, not-found or error line
IsTerminal(m) == m.type = "complete" \/ m.line.tag \in {"timeout", "not_found", "error"}

\* C10 (as claimed): an executed command delivers exactly one terminal event,
\* as its last event; complete comes only on the success path, after the child
\* has exited, never after a timeout, not-found or error event.
C10_OneTerminalEventLast ==
    CommandDone =>
        /\ Cardinality({ i \in DOMAIN sent : IsTerminal(sent[i]) }) = 1
        /\ sent # <<>> /\ IsTerminal(sent[Len(sent)])
        /\ (engine.spawns = 1 /\ sent[Len(sent)].type = "complete") => process.state = "exited"

-----------------------------------------------------------------------------
(* Claims about one execute_command invocation (SpecEngine, Spec) *)

\* the lines the invocation has yielded or is about to yield, in order
Yields ==
    [i \in 1..Cardinality({j \in DOMAIN sent : sent[j].type = "stdout"}) |-> sent[i].line]
        \o pending

\* C11 (as claimed): when the child still runs at the expiry of the overall
\* timeout, the events of the command end in exactly one timeout event and
\* the child is not running afterwards.
C11_TimeoutEndsInvocation ==
    (CommandDone /\ engine.spawns = 1 /\ process.overdue) =>
        /\ Cardinality({ i \in DOMAIN Yields : Yields[i].tag = "timeout" }) = 1
        /\ Yields[Len(Yields)].tag = "timeout"
        /\ process.state # "running"

\* C12 (as claimed): when an execute_command invocation that spawned a child
\* has ended, the child has exited and been reaped.
C12_ChildReapedAtExit ==
    (CommandDone /\ engine.spawns = 1) => process.state = "exited"

\* C13 (as claimed): a failure while processing a command is answered with a
\* generic error event and the session stays alive for the next command.
C13_SessionSurvivesFailure ==
    (sent # <<>> /\ sent[Len(sent)] = ErrorMessage("Server error")) => pc # "closed"

\* the children of the session that are running
RunningChildren == (IF process.state = "running" THEN 1 ELSE 0) + orphans

\* C14 (as claimed): one command is in flight at a time, so the session
\* never owns more than one child process.
C14_SingleFlight ==
    /\ pc \in {"validate", "ratelimit", "execute", "forward"} => engine.calls <= 1
    /\ RunningChildren <= 1

\* C15: every execute_command invocation ends after finitely many events,
\* whatever the child does, also when the child never exits.
C15_InvocationTerminates ==
    /\ <>CommandDone
    /\ [](Len(Yields) <= Len(HelpLines))

\* the invocation is over while its child runs on, past the timeout
C15_Witness ==
    /\ CommandDone
    /\ engine.spawns = 1
    /\ process.state = "running"
    /\ process.overdue

\* C16 (as claimed): a session whose transport disconnected leaves no running
\* child behind.
C16_DisconnectKillsChild ==
    pc = "closed" => RunningChildren = 0

\* C17: clear yields exactly one clear event and help exactly the lines of
\* the help text, in order; neither spawns a child, whatever the environment.
C17_BuiltinsNeverSpawn ==
    /\ (engine.calls = 1 /\ Strip(command) = <<"c","l","e","a","r">>) =>
          /\ Yields = <<Line("clear", <<"CLEAR_SCREEN">>)>>
          /\ engine.spawns = 0
          /\ process.state = "none"
    /\ (engine.calls = 1 /\ Strip(command) = <<"h","e","l","p">>) =>
          /\ Len(Yields) = 21
          /\ \A i \in 1..21 : Yields[i] = Line("help", <<HelpLines[i]>>)
          /\ engine.spawns = 0
          /\ process.state = "none"

\* the clear command, given with blanks around it, was answered by the clear event alone
C17_Witness ==
    /\ CommandDone
    /\ command = <<" ","c","l","e","a","r"," ">>
    /\ sent = <<StdoutMessage(CLEAR_SCREEN), CompleteMessage>>
    /\ engine.spawns = 0

\* the tokens of cmd invoke the fix or the analyze operation of the pyguard CLI
InvokesGated(cmd) ==
    /\ Len(Split(cmd)) >= 2
    /\ Split(cmd)[1] = <<"p","y","g","u","a","r","d">>
    /\ Split(cmd)[2] \in { <<"f","i","x">>, <<"a","n","a","l","y","z","e">> }

\* C18 (as claimed): without the credential no child is spawned for a command
\* whose tokens invoke pyguard fix or pyguard analyze; an error is yielded.
C18_NoSpawnWithoutKey ==
    (engine.calls = 1 /\ ~api_key /\ InvokesGated(command)) =>
        /\ engine.spawns = 0
        /\ Yields = <<LineNoApiKey, LineContactAdmin>>

-----------------------------------------------------------------------------
(* Claims about _stream_process_output (SpecStream) *)

\* C19 (as claimed): a line of child output that cannot be decoded is not
\* fatal: the generator drops it and goes on reading, it never ends by an
\* exception.
C19_UndecodableLineDropped ==
    stream.at # "raised"

\* the numbers of the lines of stream s among the yielded lines, in the order
\* of their yield
YieldedOf(s) ==
    LET RECURSIVE Pick(_)
        Pick(ys) == IF ys = <<>> THEN <<>>
                    ELSE IF Head(ys).stream = s THEN <<Head(ys).n>> \o Pick(Tail(ys))
                    ELSE Pick(Tail(ys))
    IN  Pick(stream.yielded)

\* C31 (as claimed): a stream is marked as done only when that stream has
\* reported end-of-stream (its last writer closed it and every line written
\* to it was read), the generator returns only when both streams are done,
\* and the lines of one stream are yielded in the order they were written.
C31_DoneOnlyAtEndOfStream ==
    /\ \A s \in Streams : stream.done[s] => (stream.eof[s] /\ stream.pipe[s] = <<>>)
    /\ stream.at = "returned" => \A s \in Streams : stream.done[s]
    /\ \A s \in Streams :
         LET ns == YieldedOf(s)
         IN  \A i, j \in 1..Len(ns) : i < j => ns[i] < ns[j]

-----------------------------------------------------------------------------
(* Claims about the source validator (SpecValidator) *)

\* C20 (as claimed): when parsing the source fails, validate_python_code
\* returns exactly one issue, of type SyntaxError; tiers 2 and 3 are not run.
C20_ParseFailureOneSyntaxError ==
    (pc = "validator_done" /\ ast_parse(source_code).outcome # "ok") =>
        /\ Len(issues) = 1
        /\ issues[1].type = "SyntaxError"

\* src has exactly one line of the given kind, among plain lines and comments
ControlSource(src, kind) ==
    /\ Cardinality({ i \in DOMAIN src : src[i] = kind }) = 1
    /\ \A i \in DOMAIN src : src[i] \in {kind, "plain", "comment"}

\* C21 (as claimed): a source whose control line is the assignment
\* conditional gets exactly one ComparisonError issue with that line's
\* number, and one whose control line lacks its colon exactly one
\* MissingColon issue.
C21_HeuristicIssues ==
    pc = "validator_done" =>
        /\ ControlSource(source_code, "assign_if") =>
              \E i \in DOMAIN source_code :
                  /\ source_code[i] = "assign_if"
                  /\ issues = <<Issue("ComparisonError", i, "error")>>
        /\ ControlSource(source_code, "no_colon") =>
              /\ Len(issues) = 1
              /\ issues[1].type = "MissingColon"

\* the positions of the PatternMatch issues of a result
PatternMatches(iss) == { i \in DOMAIN iss : iss[i].type = "PatternMatch" }

\* C22: a result holds at most one PatternMatch and never one together with
\* an error issue; a PatternMatch names one of the first 5 entries of a
\* loaded database, whose similarity is strictly above 0.6, and no entry
\* before it is that similar.
C22_PatternTier ==
    pc = "validator_done" =>
        /\ Cardinality(PatternMatches(issues)) <= 1
        /\ PatternMatches(issues) # {} =>
              /\ \A i \in DOMAIN issues : issues[i].severity # "error"
              /\ patterns_db.file = "loaded"
        /\ \A i \in PatternMatches(issues) :
              LET k == issues[i].pattern
              IN  /\ k \in 1..5
                  /\ k <= Len(patterns_db.patterns)
                  /\ calculate_similarity(source_code, patterns_db.patterns[k]) > 60
                  /\ \A j \in 1..(k - 1) :
                        calculate_similarity(source_code, patterns_db.patterns[j]) <= 60

\* the second entry matched after a first entry of similarity exactly 0.6,
\* and a sixth entry that is similar enough was not looked at
C22_Witness ==
    /\ pc = "validator_done"
    /\ Len(patterns_db.patterns) = 6
    /\ patterns_db.patterns[1].similarity = 60
    /\ patterns_db.patterns[2].similarity = 61
    /\ patterns_db.patterns[6].similarity = 61
    /\ source_code = <<"plain">>
    /\ Len(issues) = 1
    /\ issues[1].type = "PatternMatch"
    /\ issues[1].pattern = 2

-----------------------------------------------------------------------------
(* Claims about the pre-execution hook (SpecHook) *)

DetectionTable ==
    { [cmd |-> <<"p","y","t","h","o","n"," ","s","c","r","i","p","t",".","p","y">>,
       detect |-> TRUE, file |-> <<"s","c","r","i","p","t",".","p","y">>],
      [cmd |-> <<"p","y","t","h","o","n","3"," ","/","p","a","t","h","/","t","o","/","f","i","l","e",".","p","y">>,
       detect |-> TRUE, file |-> <<"/","p","a","t","h","/","t","o","/","f","i","l","e",".","p","y">>],
      [cmd |-> <<"p","y"," ","m","a","i","n",".","p","y">>,
       detect |-> TRUE, file |-> <<"m","a","i","n",".","p","y">>],
      [cmd |-> <<"e","c","h","o"," ","h","e","l","l","o">>, detect |-> FALSE, file |-> <<>>],
      [cmd |-> <<"n","p","m"," ","s","t","a","r","t">>, detect |-> FALSE, file |-> <<>>],
      [cmd |-> <<"p","y","t","h","o","n"," ","-","c"," ","'","p","r","i","n","t","(","1",")","'">>,
       detect |-> FALSE, file |-> <<>>] }

\* C24 (as claimed): is_python_execution and extract_python_file give what
\* the table of test_command_detection expects, False for inline code included.
C24_CommandDetection ==
    pc = "hook_done" =>
        \A row \in DetectionTable :
            command = row.cmd =>
                /\ is_python_execution(command) = row.detect
                /\ extract_python_file(command) = row.file

\* the positions of the parts of a message that detail an issue of the given kind
Details(msg, part) == { k \in DOMAIN msg : msg[k].part = part }

\* C25 (as claimed): the message details errors before warnings and at most
\* the first 3 errors.
C25_ErrorsCapped ==
    (pc = "hook_done" /\ hook.result.decision = "deny") =>
        /\ \A e \in Details(hook.result.reason, "error") :
              \A w \in Details(hook.result.reason, "warning") : e < w
        /\ Cardinality(Details(hook.result.reason, "error")) <= 3

-----------------------------------------------------------------------------
(* Claims about the pattern database (SpecLookup) *)

\* C26: without the database file the validator returns the issues of tiers
\* 1 and 2 and raises nothing, while load_patterns_db raises
\* FileNotFoundError and leaves PATTERNS_DB unset; a call made while
\* PATTERNS_DB is unset and the file exists loads the file.
C26_AbsentDatabase ==
    /\ (lookup.op = "validate" /\ lookup.seen.file = "absent") =>
          /\ lookup.outcome = "returned"
          /\ issues = IF check_syntax(source_code) # <<>>
                      THEN check_syntax(source_code)
                      ELSE check_static_analysis(source_code)
    /\ (lookup.op = "load" /\ ~lookup.memo.set /\ lookup.seen.file = "absent") =>
          /\ lookup.outcome = "FileNotFoundError"
          /\ ~PATTERNS_DB.set
    /\ (lookup.op = "load" /\ ~lookup.memo.set /\ lookup.seen.file = "loaded") =>
          /\ lookup.outcome = "returned"
          /\ PATTERNS_DB = [set |-> TRUE, patterns |-> lookup.seen.patterns]

\* a lookup failed for want of the file, and a later one loaded the file
C26_Witness ==
    /\ lookup.op = "load"
    /\ lookup.failed
    /\ ~lookup.memo.set
    /\ lookup.outcome = "returned"
    /\ PATTERNS_DB.set
    /\ PATTERNS_DB.patterns # <<>>

\* C32 (as claimed): in one process the pattern database file is read at most
\* once over all validator runs and lookups; once the database is loaded,
\* every use gets the loaded database, whatever path is passed and whatever
\* the file holds by then, and no operation changes the loaded database.
C32_LoadedOnce ==
    /\ [](lookup.reads <= 1)
    /\ []((lookup.op = "load" /\ lookup.memo.set) =>
            (lookup.outcome = "returned" /\ PATTERNS_DB = lookup.memo))
    /\ []((lookup.op = "validate" /\ lookup.memo.set) =>
            issues = validate_python_code(source_code,
                        [file |-> "loaded", patterns |-> lookup.memo.patterns]))
    /\ [][PATTERNS_DB.set => PATTERNS_DB' = PATTERNS_DB]_vars

-----------------------------------------------------------------------------
(* Claims about letter case (SpecGate) and about several clients (SpecClients) *)

\* s with its letters in lower case
Folded(s) == [i \in DOMAIN s |-> Lower(s[i])]

\* C27 (as claimed): a command and the same command in lower case get the
\* same verdict from validate_command.
C27_VerdictIgnoresCase ==
    pc = "gate_done" => is_allowed = validate_command(Folded(command))[1]

\* C28: the prune, check and append of a call work on the window as it is
\* when the call is made and write it back in the same step, whatever calls
\* of other sessions come before and after; no window grows above
\* max_commands.
C28_AtomicPerClient ==
    /\ [](\A c \in Clients :
            /\ Len(rate_limits[c]) <= max_commands
            /\ rl_call.conn = c =>
                  <<rate_limits[c], rl_call.result>> = check_rate_limit(rl_call.before, rl_call.at))
    /\ [][rl_call' # rl_call => rl_call'.before = rate_limits[rl_call'.conn]]_vars

\* both clients have called in turn and a call found its client's window full
C28_Witness ==
    /\ rl_call.conn = "c1"
    /\ ~rl_call.result
    /\ Len(rate_limits["c1"]) = max_commands
    /\ rate_limits["c2"] # <<>>
    /\ Len(rate_limits["c2"]) < max_commands

\* C29: a call of one client changes the window of no other client, and
\* its outcome is decided by the client's own admitted calls alone.
C29_ClientsIndependent ==
    /\ [][\A c \in Clients : rate_limits'[c] # rate_limits[c] => rl_call'.conn = c]_vars
    /\ [][rl_call' # rl_call =>
            rl_call'.result =
                (Cardinality({ i \in DOMAIN admitted[rl_call'.conn] :
                                 now - admitted[rl_call'.conn][i] < time_window })
                    < max_commands)]_vars

\* one client is admitted at the very time at which the other is rejected
C29_Witness ==
    /\ rl_call.conn = "c2"
    /\ rl_call.result
    /\ Len(rate_limits["c1"]) = max_commands
    /\ rate_limits["c1"][max_commands] = rl_call.at
    /\ Len(admitted["c1"]) > max_commands

-----------------------------------------------------------------------------
(* Claims about the timeout of a command (SpecEngine) *)

\* C30 (as claimed): when the timeout has expired on a running child, the
\* engine has sent SIGTERM first and SIGKILL at most once after it, and the
\* command ends in exactly one timeout event.
C30_GracefulThenForce ==
    (CommandDone /\ engine.spawns = 1 /\ process.overdue) =>
        /\ process.signals \in { <<"SIGTERM">>, <<"SIGTERM", "SIGKILL">> }
        /\ Cardinality({ i \in DOMAIN Yields : Yields[i].tag = "timeout" }) = 1

-----------------------------------------------------------------------------
(* Claims about the built-in commands under the rate limiter (Spec) *)

\* the commands execute_command answers itself
BuiltIns == { <<"c","l","e","a","r">>, <<"h","e","l","p">> }

\* the timestamps of the session's window that are younger than the window
\* duration
Unexpired == SelectSeq(rate_limits[connection_id], LAMBDA ts : now - ts < time_window)

\* C33: clear and help pass the rate limiter like any admitted command: an
\* accepted one appends its timestamp to the window of the connection; with
\* a full window it is rejected with the rate-limit error, the window keeps
\* its timestamps, and no clear event or help line is produced.
C33_BuiltinsRateLimited ==
    /\ [][(pc = "ratelimit" /\ pc' # "ratelimit" /\ command \in BuiltIns) =>
            IF Len(Unexpired) < max_commands
            THEN /\ pc' = "execute"
                 /\ rate_limits'[connection_id] = Append(Unexpired, now)
            ELSE /\ pc' \in {"receive", "closed"}
                 /\ rate_limits'[connection_id] = Unexpired
                 /\ sent' \in {sent, Append(sent, ErrorMessage(MsgRateLimit))}
                 /\ pending' = <<>>
                 /\ engine' = engine]_vars
    /\ []((command \in BuiltIns /\ pc \in {"execute", "forward"}) =>
            /\ rl_call.result
            /\ rl_call.conn = connection_id
            /\ rl_call.at = now
            /\ rate_limits[connection_id] # <<>>
            /\ rate_limits[connection_id][Len(rate_limits[connection_id])] = now)

\* help was rejected by the rate limiter on a full window: the client got the
\* rate-limit error and nothing else
C33_Witness ==
    /\ pc = "receive"
    /\ command = <<"h","e","l","p">>
    /\ ~rl_call.result
    /\ Len(rate_limits[connection_id]) = max_commands
    /\ sent = <<ErrorMessage(MsgRateLimit)>>
    /\ engine.calls = 0

-----------------------------------------------------------------------------
(* Claims about the lifetime of the rate window (SpecConnections) *)

\* the times of the calls admitted on the connection that is open now
LiveCalls ==
    SubSeq(admitted[connection.id], connection.since + 1, Len(admitted[connection.id]))

\* C34: a new connection starts with an empty rate window, so its first
\* command is admitted whatever the client did before; the result of every
\* rate-limit check depends on the calls admitted on the same connection
\* alone, never on the window of a connection that was closed.
C34_WindowDiesWithConnection ==
    /\ [][connection'.n # connection.n =>
            \A c \in Clients : rate_limits'[c] = <<>>]_vars
    /\ [][rl_call' # rl_call =>
            /\ rl_call'.conn = connection.id
            /\ rl_call'.before = SelectSeq(LiveCalls, LAMBDA ts : rl_call.at - ts < time_window)
            /\ rl_call'.result =
                 (Len(SelectSeq(LiveCalls, LAMBDA ts : now - ts < time_window)) < max_commands)
            /\ (LiveCalls = <<>> => rl_call'.result)]_vars

\* the client filled the window of its first connection, connected again under
\* the same id, and its next command was admitted at that very time
C34_Witness ==
    /\ connection.n = 2
    /\ connection.open
    /\ connection.since = max_commands
    /\ \A i \in 1..max_commands : admitted[connection.id][i] = now
    /\ rl_call.result
    /\ rl_call.at = now
    /\ rl_call.before = <<>>
    /\ rate_limits[connection.id] = <<now>>

-----------------------------------------------------------------------------
(* Claims about the severity of the issues the hook denies for (SpecHook) *)

\* the hook got as far as validating the text of the script
Validated ==
    /\ pc = "hook_done"
    /\ hook.tool_name = "Bash"
    /\ is_python_execution(command)
    /\ extract_python_file(command) # <<>>
    /\ hook.file = "readable"

\* C35: the hook denies whenever validate_python_code returns an issue,
\* whatever its severity: a text whose only issue is a PatternMatch warning
\* is denied like a text with errors, and the reason is the message made of
\* the issues found.
C35_DeniesOnAnyIssue ==
    Validated =>
        LET found == validate_python_code(source_code, patterns_db)
        IN  found # <<>> =>
              /\ hook.result.decision = "deny"
              /\ hook.result.reason = format_issues_message(found)
              /\ issues = found

\* a script whose only issue is the warning of the pattern tier was denied
C35_Witness ==
    /\ Validated
    /\ Len(issues) = 1
    /\ issues[1].type = "PatternMatch"
    /\ issues[1].severity = "warning"
    /\ hook.result.decision = "deny"

=============================================================================
